---- MODULE Spec2Model ----
(***************************************************************************)
(* Model of the remotetool driver, go/cmd/remotetool/main.go: the flag     *)
(* validation and operation dispatch of main, the flag getters, and the    *)
(* batch-spec loop of ComputeTree.                                         *)
(*                                                                         *)
(* Strings that the code takes apart (the lines of the batch spec file)    *)
(* are sequences of one-character strings, so that strings.TrimSpace and   *)
(* strings.Split are computed as the library computes them.  Strings that  *)
(* the code only compares with "" (the flags) are TLA+ strings.            *)
(***************************************************************************)
EXTENDS Integers, Sequences, FiniteSets, TLC

VARIABLES
    pc,            \* position of the process in main / ComputeTree
    operation,     \* flag --operation
    digest,        \* flag --digest
    pathPrefix,    \* flag --path
    inputRoot,     \* flag --input_root
    execAttempts,  \* flag --exec_attempts
    cpuProfFile,   \* flag --pprof_file
    file,          \* the lines of the file at --path, as the scanner yields them
    pos,           \* number of lines the loop of ComputeTree has processed
    is,            \* the InputSpec accumulator of ComputeTree
    fmc,           \* the file metadata cache instance held by ComputeTree (0: none)
    nextFmc,       \* number of cache instances created so far
    totalRuns,     \* ComputeTree's run counter
    builds,        \* the calls of grpcClient.ComputeMerkleTree made so far
    invoked,       \* the operations of the driver started so far
    stdout,        \* what was written to os.Stdout
    exited         \* the log.Exitf that ended the process, or NoExit

vars == <<pc, operation, digest, pathPrefix, inputRoot, execAttempts,
          cpuProfFile, file, pos, is, fmc, nextFmc, totalRuns, builds, invoked, stdout, exited>>

flags == <<operation, digest, pathPrefix, inputRoot, execAttempts, cpuProfFile>>
treeVars == <<file, pos, is, fmc, nextFmc, totalRuns, builds>>

\* ------------------------------------------------------------------ bounds

\* Longest batch spec file (in lines) of the ComputeTree specification.
MaxLines == 4
\* Longest batch spec file (in lines) of the whole-driver specification.
MainMaxLines == 2
\* Largest --exec_attempts value tried.
MaxAttempts == 2

\* ------------------------------------------------------------- operations

downloadActionResult == "download_action_result"
showAction == "show_action"
downloadBlob == "download_blob"
downloadDir == "download_dir"
reexecuteAction == "reexecute_action"
checkDeterminism == "check_determinism"
uploadBlob == "upload_blob"
computeTree == "compute_tree"

\* The default of --exec_attempts.
DefaultExecAttempts == 10

\* ---------------------------------------------------------------- strings

\* The white space characters of the model's alphabet.
IsSpace(c) == c = " "

RECURSIVE TrimLeft(_)
TrimLeft(s) ==
    IF s # <<>> /\ IsSpace(Head(s)) THEN TrimLeft(Tail(s)) ELSE s

RECURSIVE TrimRight(_)
TrimRight(s) ==
    IF s # <<>> /\ IsSpace(s[Len(s)]) THEN TrimRight(SubSeq(s, 1, Len(s) - 1)) ELSE s

\* strings.TrimSpace: the string without its leading and trailing white space.
TrimSpace(s) == TrimRight(TrimLeft(s))

\* strings.Split(s, sep) for a one-character separator: the pieces of s
\* between the occurrences of sep; one piece more than there are separators.
RECURSIVE Split(_, _)
Split(s, sep) ==
    IF \A i \in 1..Len(s) : s[i] # sep
    THEN <<s>>
    ELSE LET i == CHOOSE j \in 1..Len(s) :
                      s[j] = sep /\ \A k \in 1..(j - 1) : s[k] # sep
         IN  <<SubSeq(s, 1, i - 1)>> \o Split(SubSeq(s, i + 1, Len(s)), sep)

\* The keys of a batch spec line.
KeyInputs == <<"i", "n", "p", "u", "t", "s">>
KeyPath == <<"p", "a", "t", "h">>

\* The lines a batch spec file is made of in this model.
LineSet ==
    { <<>>,                                                  \* ""
      <<" ">>,                                               \* " "
      KeyInputs \o <<":", " ", "a">>,                        \* "inputs: a"
      KeyPath \o <<":", " ", "b">>,                          \* "path: b"
      <<" ">> \o KeyPath \o <<" ", ":", "a", " ">>,          \* " path :a "
      KeyInputs \o <<":">>,                                  \* "inputs:"
      KeyInputs \o <<":", " ", "a", ":", "b">>,              \* "inputs: a:b"
      <<"f", "o", "o">> \o <<":", " ", "a">>,                \* "foo: a"
      KeyInputs \o <<" ", "a">> }                            \* "inputs a"

\* The files of at most n lines.
Files(n) == UNION { [1..k -> LineSet] : k \in 0..n }

\* ------------------------------------------------------------ process exit

NoExit == [msg |-> "", line |-> <<>>, digest |-> "", err |-> ""]

\* log.Exitf of a message about a line, a digest and an error.
Exitf(m, l, d, e) == [msg |-> m, line |-> l, digest |-> d, err |-> e]

\* An operation of the driver, started with a digest, a path and an attempt
\* count ("n/a" and 0 where the operation takes none).
Invocation(o, d, p, n) == [op |-> o, digest |-> d, path |-> p, attempts |-> n]

\* getDigestFlag: the flag, or the exit when it is empty.
GetDigestFlag == [exit |-> digest = "", value |-> digest]
DigestFlagExit == Exitf("--digest must be specified.", <<>>, "", "")

\* getPathFlag: the flag, or the exit when it is empty.
GetPathFlag == [exit |-> pathPrefix = "", value |-> pathPrefix]
PathFlagExit == Exitf("--path must be specified.", <<>>, "", "")

\* ------------------------------------------------------------ ComputeTree

\* command.InputSpec{}
NewInputSpec == [Inputs |-> <<>>, VirtualInputs |-> <<>>]

\* &command.VirtualInput{Path: v}
VirtualInput(v) == [Path |-> v]

\* The test of line 190: the line is empty once trimmed.
IsBlankLine(txt) == TrimSpace(txt) = <<>>

\* A build on every blank line (the test of line 191 left out).
HasInputs_Always(spec) == TRUE

\* The test of line 191: the accumulator holds an input or a virtual input.
HasInputs(spec) == Len(spec.Inputs) # 0 \/ Len(spec.VirtualInputs) # 0

\* The failure of a tree build: a path that is both an input and a virtual
\* input is a DuplicatePath.
TreeBuildError(spec) ==
    IF \E i \in 1..Len(spec.Inputs) : \E j \in 1..Len(spec.VirtualInputs) :
           spec.Inputs[i] = spec.VirtualInputs[j].Path
    THEN "DuplicatePath"
    ELSE ""

\* The root digest of the tree of an input spec under an input root.
RootDigest(root, spec) == [root |-> root, spec |-> spec]

\* A build that is handed a cache of its own instead of ComputeTree's.
ComputeMerkleTree_FreshCache(root, spec, cache) ==
    [inputRoot |-> root, is |-> spec, fmc |-> cache + 1,
     err |-> TreeBuildError(spec), rootDigest |-> RootDigest(root, spec)]

\* The call grpcClient.ComputeMerkleTree(*inputRoot, &is, fmc) and what it
\* returns.
ComputeMerkleTree(root, spec, cache) ==
    [inputRoot |-> root, is |-> spec, fmc |-> cache,
     err |-> TreeBuildError(spec), rootDigest |-> RootDigest(root, spec)]

\* An accumulator that is not reset after a build.
InputSpecAfterBuild_Keep(spec) == spec

\* The accumulator after a build: is = command.InputSpec{}
InputSpecAfterBuild(spec) == NewInputSpec

\* The run counter after a build: totalRuns += 1, whatever the build returned.
RunsAfterBuild(n, call) == n + 1

\* The test of line 201: the line does not split in two at ":".
IsBrokenSplit(brokenTxt) == Len(brokenTxt) # 2

\* Lines 207-213: the accumulator with the value added under the key, or
\* broken when the key is neither "inputs" nor "path".
AddKeyValue(spec, key, v) ==
    IF key = KeyInputs
    THEN [broken |-> FALSE, is |-> [spec EXCEPT !.Inputs = Append(@, v)]]
    ELSE IF key = KeyPath
         THEN [broken |-> FALSE,
               is |-> [spec EXCEPT !.VirtualInputs = Append(@, VirtualInput(v))]]
         ELSE [broken |-> TRUE, is |-> spec]

\* Lines 171-186: getPathFlag, os.Open, the scanner, the cache and the
\* accumulator.
ComputeTreeOpen ==
    /\ pc = "ComputeTree"
    /\ \/ /\ GetPathFlag.exit
          /\ exited' = PathFlagExit
          /\ pc' = "exited"
          /\ UNCHANGED <<invoked, treeVars>>
       \/ /\ ~GetPathFlag.exit
          /\ exited' = Exitf("failed to open input", <<>>, "", "")
          /\ pc' = "exited"
          /\ invoked' = Append(invoked, Invocation("ComputeTree", "n/a",
                                                   GetPathFlag.value, 0))
          /\ totalRuns' = 0
          /\ UNCHANGED <<file, pos, is, fmc, nextFmc, builds>>
       \/ /\ ~GetPathFlag.exit
          /\ invoked' = Append(invoked, Invocation("ComputeTree", "n/a",
                                                   GetPathFlag.value, 0))
          /\ totalRuns' = 0
          /\ pos' = 0
          /\ fmc' = nextFmc + 1
          /\ nextFmc' = nextFmc + 1
          /\ is' = NewInputSpec
          /\ pc' = "scan"
          /\ UNCHANGED <<file, builds, exited>>
    /\ UNCHANGED <<flags, stdout>>

\* Lines 187-198: a blank line; a tree build when the accumulator is not empty.
BlankLine ==
    /\ pc = "scan"
    /\ pos < Len(file)
    /\ LET txt == file[pos + 1] IN
       /\ IsBlankLine(txt)
       /\ IF HasInputs(is)
          THEN LET call == ComputeMerkleTree(inputRoot, is, fmc) IN
               /\ builds' = Append(builds, call)
               /\ totalRuns' = RunsAfterBuild(totalRuns, call)
               /\ is' = InputSpecAfterBuild(is)
          ELSE UNCHANGED <<builds, totalRuns, is>>
    /\ pos' = pos + 1
    /\ UNCHANGED <<pc, flags, file, fmc, nextFmc, invoked, stdout, exited>>

\* Lines 200-210: a line "key: value" with a known key joins the accumulator.
KeyValueLine ==
    /\ pc = "scan"
    /\ pos < Len(file)
    /\ LET txt == file[pos + 1]
           brokenTxt == Split(txt, ":")
       IN  /\ ~IsBlankLine(txt)
           /\ ~IsBrokenSplit(brokenTxt)
           /\ LET key == TrimSpace(brokenTxt[1])
                  v == TrimSpace(brokenTxt[2])
              IN  /\ ~AddKeyValue(is, key, v).broken
                  /\ is' = AddKeyValue(is, key, v).is
    /\ pos' = pos + 1
    /\ UNCHANGED <<pc, flags, file, fmc, nextFmc, totalRuns, builds, invoked,
                   stdout, exited>>

\* Lines 201-203 and 211-213: log.Exitf("broken line %v", txt).
BrokenLine ==
    /\ pc = "scan"
    /\ pos < Len(file)
    /\ LET txt == file[pos + 1]
           brokenTxt == Split(txt, ":")
       IN  /\ ~IsBlankLine(txt)
           /\ \/ IsBrokenSplit(brokenTxt)
              \/ /\ ~IsBrokenSplit(brokenTxt)
                 /\ AddKeyValue(is, TrimSpace(brokenTxt[1]),
                                TrimSpace(brokenTxt[2])).broken
           /\ exited' = Exitf("broken line", txt, "", "")
    /\ pc' = "exited"
    /\ UNCHANGED <<flags, treeVars, invoked, stdout>>

\* Line 187 at the end of the file: the loop ends, ComputeTree and main return.
ScanEnd ==
    /\ pc = "scan"
    /\ pos = Len(file)
    /\ pc' = "done"
    /\ UNCHANGED <<flags, treeVars, invoked, stdout, exited>>

NextTree ==
    \/ ComputeTreeOpen
    \/ BlankLine
    \/ KeyValueLine
    \/ BrokenLine
    \/ ScanEnd

\* ComputeTree as main enters it under --operation=compute_tree.
InitTree ==
    /\ pc = "ComputeTree"
    /\ operation = computeTree
    /\ digest = ""
    /\ inputRoot = "r"
    /\ execAttempts = DefaultExecAttempts
    /\ cpuProfFile = ""
    /\ \/ pathPrefix = "" /\ file = <<>>
       \/ pathPrefix = "p" /\ file \in Files(MaxLines)
    /\ pos = 0
    /\ is = NewInputSpec
    /\ fmc = 0
    /\ nextFmc = 0
    /\ totalRuns = 0
    /\ builds = <<>>
    /\ invoked = <<>>
    /\ stdout = <<>>
    /\ exited = NoExit

Spec == InitTree /\ [][NextTree]_vars

\* ------------------------------------------------------------------- main

\* exec_attempts below 0 only is refused.
AttemptsInvalid_Negative(n) == n < 0

\* The test of line 84.
AttemptsInvalid(n) == n <= 0

\* The process ends in log.Exitf (or log.Fatal) with e.
Exit(e) == pc' = "exited" /\ exited' = e

\* The operation returned without error and main returns.
Return == pc' = "done" /\ UNCHANGED exited

\* log.Exitf(m, getDigestFlag(), err): the arguments are evaluated first,
\* and getDigestFlag exits when the flag is empty.
ExitfDigest(m, err) ==
    IF GetDigestFlag.exit THEN DigestFlagExit ELSE Exitf(m, <<>>, GetDigestFlag.value, err)

\* Lines 81-86: the operation and the attempt count are validated.
ValidateFlags ==
    /\ pc = "main"
    /\ \/ /\ operation = ""
          /\ Exit(Exitf("--operation must be specified.", <<>>, "", ""))
       \/ /\ operation # ""
          /\ AttemptsInvalid(execAttempts)
          /\ Exit(Exitf("--exec_attempts must be >= 1.", <<>>, "", ""))
       \/ /\ operation # ""
          /\ ~AttemptsInvalid(execAttempts)
          /\ pc' = "profile"
          /\ UNCHANGED exited
    /\ UNCHANGED <<flags, treeVars, invoked, stdout>>

\* Lines 88-98: the CPU profile is started when a file is given for it.
StartProfile ==
    /\ pc = "profile"
    /\ \/ /\ cpuProfFile = ""
          /\ pc' = "connect"
          /\ UNCHANGED exited
       \/ /\ cpuProfFile # ""
          /\ pc' = "connect"
          /\ UNCHANGED exited
       \/ /\ cpuProfFile # ""
          /\ \E m \in {"Could not create CPU profile: ", "Could not start CPU profile: "} :
                 Exit(Exitf(m, <<>>, "", "IOError"))
    /\ UNCHANGED <<flags, treeVars, invoked, stdout>>

\* Lines 100-106: the client is made from the flags.
Connect ==
    /\ pc = "connect"
    /\ \/ Exit(Exitf("error connecting to remote execution client", <<>>, "", "Unavailable"))
       \/ pc' = "dispatch" /\ UNCHANGED exited
    /\ UNCHANGED <<flags, treeVars, invoked, stdout>>

\* Lines 109-112.
DownloadActionResult ==
    /\ pc = "dispatch"
    /\ operation = downloadActionResult
    /\ \/ /\ GetDigestFlag.exit
          /\ Exit(DigestFlagExit)
          /\ UNCHANGED invoked
       \/ /\ ~GetDigestFlag.exit
          /\ GetPathFlag.exit
          /\ Exit(PathFlagExit)
          /\ UNCHANGED invoked
       \/ /\ ~GetDigestFlag.exit
          /\ ~GetPathFlag.exit
          /\ invoked' = Append(invoked, Invocation("DownloadActionResult",
                                   GetDigestFlag.value, GetPathFlag.value, 0))
          /\ \/ Return
             \/ \E err \in {"NotFound", "IOError"} :
                    Exit(ExitfDigest("error downloading action result for digest", err))
    /\ UNCHANGED <<flags, treeVars, stdout>>

\* Lines 114-119.
DownloadBlob ==
    /\ pc = "dispatch"
    /\ operation = downloadBlob
    /\ \/ /\ GetDigestFlag.exit
          /\ Exit(DigestFlagExit)
          /\ UNCHANGED <<invoked, stdout>>
       \/ /\ ~GetDigestFlag.exit
          /\ GetPathFlag.exit
          /\ Exit(PathFlagExit)
          /\ UNCHANGED <<invoked, stdout>>
       \/ /\ ~GetDigestFlag.exit
          /\ ~GetPathFlag.exit
          /\ invoked' = Append(invoked, Invocation("DownloadBlob",
                                   GetDigestFlag.value, GetPathFlag.value, 0))
          /\ \/ /\ Return
                /\ stdout' = Append(stdout, [blob |-> GetDigestFlag.value])
             \/ /\ Exit(ExitfDigest("error downloading blob for digest", "NotFound"))
                /\ UNCHANGED stdout
    /\ UNCHANGED <<flags, treeVars>>

\* Lines 121-124.
DownloadDir ==
    /\ pc = "dispatch"
    /\ operation = downloadDir
    /\ \/ /\ GetDigestFlag.exit
          /\ Exit(DigestFlagExit)
          /\ UNCHANGED invoked
       \/ /\ ~GetDigestFlag.exit
          /\ GetPathFlag.exit
          /\ Exit(PathFlagExit)
          /\ UNCHANGED invoked
       \/ /\ ~GetDigestFlag.exit
          /\ ~GetPathFlag.exit
          /\ invoked' = Append(invoked, Invocation("DownloadDirectory",
                                   GetDigestFlag.value, GetPathFlag.value, 0))
          /\ \/ Return
             \/ \E err \in {"NotFound", "IOError"} :
                    Exit(ExitfDigest("error downloading directory for digest", err))
    /\ UNCHANGED <<flags, treeVars, stdout>>

\* Lines 126-131.
ShowAction ==
    /\ pc = "dispatch"
    /\ operation = showAction
    /\ \/ /\ GetDigestFlag.exit
          /\ Exit(DigestFlagExit)
          /\ UNCHANGED <<invoked, stdout>>
       \/ /\ ~GetDigestFlag.exit
          /\ invoked' = Append(invoked, Invocation("ShowAction",
                                   GetDigestFlag.value, "n/a", 0))
          /\ \/ /\ Return
                /\ stdout' = Append(stdout, [action |-> GetDigestFlag.value])
             \/ /\ Exit(ExitfDigest("error fetching action", "NotFound"))
                /\ UNCHANGED stdout
    /\ UNCHANGED <<flags, treeVars>>

\* Lines 133-136.
ReexecuteAction ==
    /\ pc = "dispatch"
    /\ operation = reexecuteAction
    /\ \/ /\ GetDigestFlag.exit
          /\ Exit(DigestFlagExit)
          /\ UNCHANGED invoked
       \/ /\ ~GetDigestFlag.exit
          /\ invoked' = Append(invoked, Invocation("ReexecuteAction",
                                   GetDigestFlag.value, "n/a", 0))
          /\ \/ Return
             \/ Exit(ExitfDigest("error reexecuting action", "ExecutionError"))
    /\ UNCHANGED <<flags, treeVars, stdout>>

\* Lines 138-141.
CheckDeterminism ==
    /\ pc = "dispatch"
    /\ operation = checkDeterminism
    /\ \/ /\ GetDigestFlag.exit
          /\ Exit(DigestFlagExit)
          /\ UNCHANGED invoked
       \/ /\ ~GetDigestFlag.exit
          /\ invoked' = Append(invoked, Invocation("CheckDeterminism",
                                   GetDigestFlag.value, "n/a", execAttempts))
          /\ \/ Return
             \/ Exit(ExitfDigest("error checking the determinism of", "InsufficientTrials"))
    /\ UNCHANGED <<flags, treeVars, stdout>>

\* Lines 143-146.
UploadBlob ==
    /\ pc = "dispatch"
    /\ operation = uploadBlob
    /\ \/ /\ GetPathFlag.exit
          /\ Exit(PathFlagExit)
          /\ UNCHANGED invoked
       \/ /\ ~GetPathFlag.exit
          /\ invoked' = Append(invoked, Invocation("UploadBlob", "n/a",
                                                   GetPathFlag.value, 0))
          /\ \/ Return
             \/ Exit(ExitfDigest("error uploading blob for digest", "IOError"))
    /\ UNCHANGED <<flags, treeVars, stdout>>

\* Lines 148-149.
DispatchComputeTree ==
    /\ pc = "dispatch"
    /\ operation = computeTree
    /\ pc' = "ComputeTree"
    /\ UNCHANGED <<flags, treeVars, invoked, stdout, exited>>

\* Lines 151-152.
UnsupportedOperation ==
    /\ pc = "dispatch"
    /\ operation \notin {downloadActionResult, downloadBlob, downloadDir, showAction,
                         reexecuteAction, checkDeterminism, uploadBlob, computeTree}
    /\ Exit(Exitf("unsupported operation", <<>>, "", ""))
    /\ UNCHANGED <<flags, treeVars, invoked, stdout>>

NextMain ==
    \/ ValidateFlags
    \/ StartProfile
    \/ Connect
    \/ DownloadActionResult
    \/ DownloadBlob
    \/ DownloadDir
    \/ ShowAction
    \/ ReexecuteAction
    \/ CheckDeterminism
    \/ UploadBlob
    \/ DispatchComputeTree
    \/ UnsupportedOperation
    \/ NextTree

\* The values of --operation tried: none, the eight operations, an unknown one.
Operations ==
    {"", downloadActionResult, showAction, downloadBlob, downloadDir, reexecuteAction,
     checkDeterminism, uploadBlob, computeTree, "bogus"}

\* The process as flag.Parse leaves it.
InitMain ==
    /\ pc = "main"
    /\ operation \in Operations
    /\ digest \in {"", "d/1"}
    /\ pathPrefix \in {"", "p"}
    /\ inputRoot \in {"", "r"}
    /\ execAttempts \in (-1)..MaxAttempts
    /\ cpuProfFile \in {"", "f"}
    /\ IF operation = computeTree /\ pathPrefix # ""
       THEN file \in Files(MainMaxLines)
       ELSE file = <<>>
    /\ pos = 0
    /\ is = NewInputSpec
    /\ fmc = 0
    /\ nextFmc = 0
    /\ totalRuns = 0
    /\ builds = <<>>
    /\ invoked = <<>>
    /\ stdout = <<>>
    /\ exited = NoExit

SpecMain == InitMain /\ [][NextMain]_vars

\* ------------------------------------------- the batch spec format, as stated

\* A line of white space only.
BlankText(l) == \A i \in 1..Len(l) : l[i] = " "

\* s without the white space around it.
Strip(s) ==
    IF BlankText(s)
    THEN <<>>
    ELSE LET lo == CHOOSE i \in 1..Len(s) :
                       s[i] # " " /\ \A k \in 1..(i - 1) : s[k] = " "
             hi == CHOOSE i \in 1..Len(s) :
                       s[i] # " " /\ \A k \in (i + 1)..Len(s) : s[k] = " "
         IN  SubSeq(s, lo, hi)

HasColon(l) == \E i \in 1..Len(l) : l[i] = ":"

FirstColon(l) == CHOOSE i \in 1..Len(l) : l[i] = ":" /\ \A k \in 1..(i - 1) : l[k] # ":"

\* The key and the value of a line "key: value": what stands before and
\* after its first ":".
LineKey(l) == Strip(SubSeq(l, 1, FirstColon(l) - 1))
LineValue(l) == Strip(SubSeq(l, FirstColon(l) + 1, Len(l)))

\* A line `inputs: v` or `path: v`.
WellFormedLine(l) == HasColon(l) /\ LineKey(l) \in {KeyInputs, KeyPath}

\* A file all of whose non-blank lines are well formed.
WellFormedFile(f) == \A i \in 1..Len(f) : BlankText(f[i]) \/ WellFormedLine(f[i])

\* The first lines of the records of f: a record is a maximal run of
\* non-blank lines.
RecordStarts(f) ==
    { i \in 1..Len(f) : ~BlankText(f[i]) /\ (i = 1 \/ BlankText(f[i - 1])) }

\* The last line of the record that starts at line s.
RecordEnd(f, s) ==
    CHOOSE e \in s..Len(f) :
        /\ \A i \in s..e : ~BlankText(f[i])
        /\ (e = Len(f) \/ BlankText(f[e + 1]))

\* The first line of the k-th record among the records starting in S.
NthStart(S, k) == CHOOSE s \in S : Cardinality({t \in S : t <= s}) = k

WellFormedRecord(f, s) == \A i \in s..RecordEnd(f, s) : WellFormedLine(f[i])

\* The input spec a record stands for: the values of its `inputs:` lines
\* and of its `path:` lines, each in file order.
RecordInputSpec(f, s) ==
    LET lines == SubSeq(f, s, RecordEnd(f, s))
        IsInput(l) == HasColon(l) /\ LineKey(l) = KeyInputs
        IsVirtual(l) == HasColon(l) /\ LineKey(l) = KeyPath
        ins == SelectSeq(lines, IsInput)
        virts == SelectSeq(lines, IsVirtual)
    IN  [Inputs |-> [i \in 1..Len(ins) |-> LineValue(ins[i])],
         VirtualInputs |-> [i \in 1..Len(virts) |-> [Path |-> LineValue(virts[i])]]]

\* The builds made are those of the records starting in S, in file order.
BuildsAre(f, S) ==
    /\ Len(builds) = Cardinality(S)
    /\ \A k \in 1..Len(builds) : builds[k].is = RecordInputSpec(f, NthStart(S, k))

\* ------------------------------------------------------------------ claims

\* C1: once ComputeTree has read a well-formed file to its end, every
\* record of the file, the last one included, has been built exactly once,
\* in record order.
C1_EveryRecordBuilt ==
    (pc = "done" /\ WellFormedFile(file)) => BuildsAre(file, RecordStarts(file))

\* C2: after a run over a well-formed file, the root digests written to
\* the output are those of the builds made, one per build, in order.
C2_OneDigestPerBuild ==
    (pc = "done" /\ WellFormedFile(file)) =>
        /\ Len(stdout) = Len(builds)
        /\ \A k \in 1..Len(builds) : stdout[k] = builds[k].rootDigest

\* C3: no build is ever made of an input spec without inputs and virtual
\* inputs; one build is made per blank line that follows a non-blank line,
\* and none at a blank line that starts the file or follows a blank line.
C3_NoEmptyBuild ==
    /\ \A k \in 1..Len(builds) :
           builds[k].is.Inputs # <<>> \/ builds[k].is.VirtualInputs # <<>>
    /\ Len(builds) =
           Cardinality({ i \in 2..pos : BlankText(file[i]) /\ ~BlankText(file[i - 1]) })

\* The loop went past a leading blank line, a record and two blank lines in
\* a row, and made one build.
C3_Witness ==
    /\ pos = 4
    /\ BlankText(file[1]) /\ ~BlankText(file[2])
    /\ BlankText(file[3]) /\ BlankText(file[4])
    /\ Len(builds) = 1

\* C4: a line is rejected exactly when it is neither blank nor `inputs: v`
\* nor `path: v`: the line that ended the run is such a line, and every
\* line the loop went past is blank or well formed.
C4_RejectIffMalformed ==
    /\ exited.msg = "broken line" =>
           ~BlankText(exited.line) /\ ~WellFormedLine(exited.line)
    /\ pc \in {"scan", "done", "exited"} =>
           \A i \in 1..pos : BlankText(file[i]) \/ WellFormedLine(file[i])

\* C5: a malformed line is echoed in the error and aborts its own record
\* only: when the run has ended on it, every well-formed record of the file
\* has been built exactly once.
C5_OnlyTheRecordAborted ==
    (exited.msg = "broken line" /\ ~WellFormedLine(exited.line)) =>
        /\ exited.line = file[pos + 1]
        /\ BuildsAre(file, { s \in RecordStarts(file) : WellFormedRecord(file, s) })

\* C6: a build that fails is not counted as a run, and its error is
\* reported to the caller.
C6_BuildErrorSurfaced ==
    /\ totalRuns = Cardinality({ k \in 1..Len(builds) : builds[k].err = "" })
    /\ \A k \in 1..Len(builds) : builds[k].err # "" => exited.err = builds[k].err

\* C7: every build is handed the one cache that ComputeTree created before
\* it read a line, and the input root of the flag.
C7_OneCache ==
    /\ \A k \in 1..Len(builds) :
           builds[k].fmc = fmc /\ builds[k].inputRoot = inputRoot
    /\ (pc \in {"scan", "done"} \/ pos > 0 \/ builds # <<>>) => (fmc = 1 /\ nextFmc = 1)

\* Two builds were made.
C7_Witness == Len(builds) >= 2 /\ builds[1].fmc = 1 /\ builds[2].fmc = 1

\* C8: the input spec of the k-th build is that of the k-th record of the
\* file: the trimmed values of its `inputs:` lines and of its `path:` lines,
\* in file order, and nothing of an earlier record.
C8_BuildIsRecord ==
    /\ Len(builds) <= Cardinality(RecordStarts(file))
    /\ \A k \in 1..Len(builds) :
           builds[k].is = RecordInputSpec(file, NthStart(RecordStarts(file), k))

\* Two builds were made: the first of a record of one `path:` line with
\* white space around its key and value, the second of a record of one
\* `inputs:` line.
C8_Witness ==
    /\ Len(builds) = 2
    /\ builds[1].is = [Inputs |-> <<>>, VirtualInputs |-> <<[Path |-> <<"a">>]>>]
    /\ builds[2].is = [Inputs |-> <<<<"a">>>>, VirtualInputs |-> <<>>]

\* The operations that take a digest, and those that take a path.
DigestOps ==
    {"DownloadActionResult", "DownloadBlob", "DownloadDirectory", "ShowAction",
     "ReexecuteAction", "CheckDeterminism"}
PathOps == {"DownloadActionResult", "DownloadBlob", "DownloadDirectory", "UploadBlob",
            "ComputeTree"}

\* The flags lack something the operation asked for needs.
FlagsInvalid ==
    \/ operation = ""
    \/ execAttempts <= 0
    \/ /\ operation \in {downloadActionResult, downloadBlob, downloadDir, showAction,
                         reexecuteAction, checkDeterminism}
       /\ digest = ""
    \/ /\ operation \in {downloadActionResult, downloadBlob, downloadDir, uploadBlob,
                         computeTree}
       /\ pathPrefix = ""

\* C9: no operation is started with an attempt count below 1, an empty
\* digest or an empty path; at most one operation is started per run; and a
\* run whose flags are invalid starts none, makes no tree build and does
\* not end normally.
C9_ValidArguments ==
    /\ \A k \in 1..Len(invoked) :
           /\ invoked[k].op = "CheckDeterminism" => invoked[k].attempts >= 1
           /\ invoked[k].op \in DigestOps => invoked[k].digest # ""
           /\ invoked[k].op \in PathOps => invoked[k].path # ""
    /\ Len(invoked) <= 1
    /\ FlagsInvalid => (invoked = <<>> /\ builds = <<>> /\ pc # "done")

\* CheckDeterminism was started and returned.
C9_Witness ==
    /\ pc = "done"
    /\ Len(invoked) = 1
    /\ invoked[1].op = "CheckDeterminism"
    /\ invoked[1].attempts = execAttempts

\* C10: an upload that failed ends the run with the upload's own error,
\* whatever the other flags are.
C10_UploadErrorReported ==
    (pc = "exited" /\ invoked # <<>> /\ invoked[1].op = "UploadBlob") =>
        (exited.msg = "error uploading blob for digest" /\ exited.err = "IOError")

====
